---- MODULE Spec2Model ----
(***************************************************************************)
(* A model of fabfile.py, the Fabric file that provisions a host and       *)
(* publishes InaSAFE test builds.                                          *)
(*                                                                         *)
(* One behaviour is a series of `fab (localhost|remote) <task>` runs on    *)
(* one target machine.  The machine's state (git checkout, plugin          *)
(* repository, apache site, hosts file) persists between runs; fabric's    *)
(* env and the Python locals live for one run.  Every external command is  *)
(* one step: it may succeed, or fail, and a failed run/sudo/sed/get aborts *)
(* the fab process (fabric's default, warn_only = False).                  *)
(*                                                                         *)
(* Text (file contents, names, paths) is a sequence of string tokens, so   *)
(* that str.replace, rstrip, `in`, %-formatting and sed do what the code   *)
(* does on them.  A commit is the set of change atoms it contains: the     *)
(* ancestor relation is \subseteq, a merge is a union.                     *)
(*                                                                         *)
(* fabric's cd() does not apply to local(): in localhost mode the model    *)
(* takes fab to be started in the directory the cd() names, so that        *)
(* env.run acts on the same checkout in both modes.                        *)
(***************************************************************************)
EXTENDS Naturals, Sequences, FiniteSets, TLC

\* Bound: how many fab runs one behaviour holds.
MaxRuns == 2

\* Bound: how many lines a metadata.txt holds.
MaxLines == 2

VARIABLES
    host,      \* the target machine: [hostname, user]
    repo,      \* files of the repository at its tip: [plugins_xml, metadata]
    git,       \* the checkout <repo_path>/<repo_alias>
    fs,        \* the rest of the machine's file system and apache state
    env,       \* fabric's env of the running fab process
    loc,       \* build_test_package's local variables
    task,      \* the task named on the command line
    branch,    \* its branch argument
    pc,        \* where the fab process stands
    log,       \* the external commands this run has issued, in order
    runs,      \* fab runs started so far
    start,     \* the hosts file and the checkout when this run started
    prev       \* the previous run: its task, branch and end state

vars == <<host, repo, git, fs, env, loc, task, branch, pc, log, runs, start, prev>>

----------------------------------------------------------------------------
\* Text helpers

Whitespace == {" ", "\n"}

\* str.replace(before, after) / sed s/before/after/g on a token sequence.
RECURSIVE ReplaceAll(_, _, _)
ReplaceAll(s, before, after) ==
    IF Len(s) < Len(before) THEN s
    ELSE IF SubSeq(s, 1, Len(before)) = before
         THEN after \o ReplaceAll(SubSeq(s, Len(before) + 1, Len(s)), before, after)
         ELSE <<Head(s)>> \o ReplaceAll(Tail(s), before, after)

\* `before in s` / egrep before.
Contains(s, before) ==
    \E i \in 1..(Len(s) + 1 - Len(before)) :
        SubSeq(s, i, i + Len(before) - 1) = before

\* str.rstrip()
RECURSIVE RStrip(_)
RStrip(s) ==
    IF s # <<>> /\ s[Len(s)] \in Whitespace
    THEN RStrip(SubSeq(s, 1, Len(s) - 1))
    ELSE s

\* os.path.join(a, b)
PathJoin(a, b) ==
    IF a # <<>> /\ a[Len(a)] = "/" THEN a \o b ELSE a \o <<"/">> \o b

\* file.readlines(): every line keeps its newline.
Readlines(lines) == [i \in DOMAIN lines |-> lines[i] \o <<"\n">>]

\* All sequences over S of length at most n.
SeqsUpTo(S, n) == UNION {[1..k -> S] : k \in 0..n}

----------------------------------------------------------------------------
\* _all: the site table and the values it derives

Localhost == <<"inasafe-test", ".localhost">>
Linfiniti == <<"inasafe-test", ".linfiniti.com">>

site_names ==
    ("waterfall" :> Localhost) @@
    ("spur" :> Localhost) @@
    ("maps.linfiniti.com" :> Linfiniti)

\* fabric's env before a task has run: of the attributes the fabfile uses,
\* only env.user exists.  `has` is the set of attributes that are defined;
\* reading any other raises AttributeError.
FreshEnv ==
    [ run |-> "", hosts |-> <<>>, user |-> <<>>, hostname |-> "",
      site_name |-> <<>>, plugin_repo_path |-> <<>>, home |-> <<>>,
      repo_path |-> <<>>, git_url |-> <<>>, repo_alias |-> <<>>,
      has |-> {"user"} ]

ResolvedAttrs ==
    {"user", "hostname", "site_name", "plugin_repo_path", "home",
     "repo_path", "git_url", "repo_alias"}

\* The else branch of _all (lines 53-60).
ResolvedEnv(e, user, hostname) ==
    [ e EXCEPT
        !.user = <<user>>,
        !.hostname = hostname,
        !.site_name = site_names[hostname],
        !.plugin_repo_path = <<"/home/web/inasafe-test">>,
        !.home = PathJoin(<<"/home/">>, <<user>>),
        !.repo_path = PathJoin(PathJoin(PathJoin(<<"/home/">>, <<user>>), <<"dev">>), <<"python">>),
        !.git_url = <<"git://github.com/AIFDR/inasafe.git">>,
        !.repo_alias = <<"inasafe-test">>,
        !.has = ResolvedAttrs ]

\* The if branch of _all (lines 47-51): the error is printed and `exit`, a
\* bare name, does nothing.
UnresolvedEnv(e, user, hostname) ==
    [ e EXCEPT !.user = <<user>>, !.hostname = hostname,
               !.has = {"user", "hostname"} ]

----------------------------------------------------------------------------
\* git: the checkout and the commands the fabfile runs in it

RemoteBranches == {"master", "dev"}

\* The tip of each branch of the remote repository.
RemoteTip == [b \in RemoteBranches |-> {<<b, "remote">>}]

\* A commit made in the checkout.
LocalCommit == <<"local", "commit">>

NoCheckout ==
    [ exists |-> FALSE, cur |-> "master", branches |-> {},
      head |-> [b \in RemoteBranches |-> {}], dirty |-> FALSE, fetched |-> FALSE ]

\* git clone: master checked out at the remote tip.
GitClone(g) ==
    [ exists |-> TRUE, cur |-> "master", branches |-> {"master"},
      head |-> [b \in RemoteBranches |-> IF b = "master" THEN RemoteTip[b] ELSE {}],
      dirty |-> FALSE, fetched |-> TRUE ]

\* git fetch: the remote-tracking refs are brought up to date.
GitFetch(g) == [g EXCEPT !.fetched = TRUE]

\* git reset --hard: tracked files go back to HEAD; no commit is dropped.
GitResetHard(g) == [g EXCEPT !.dirty = FALSE]

\* git checkout <b>
GitCheckout(g, b) == [g EXCEPT !.cur = b]

\* git branch | grep -v \* | xargs git branch -D
OtherBranches(g) == g.branches \ {g.cur}

GitDeleteOthers(g) ==
    [g EXCEPT !.branches = {g.cur},
              !.head = [b \in RemoteBranches |-> IF b = g.cur THEN g.head[b] ELSE {}]]

\* The commit origin/<b> names in the checkout.
OriginRef(g, b) == IF g.fetched THEN RemoteTip[b] ELSE {}

\* git branch --track <b> origin/<b>
GitBranchTrack(g, b) ==
    [g EXCEPT !.branches = g.branches \cup {b}, !.head[b] = OriginRef(g, b)]

\* git pull: fetch, then merge origin/<cur> into the current branch.
GitPull(g) ==
    [g EXCEPT !.fetched = TRUE, !.head[g.cur] = g.head[g.cur] \cup RemoteTip[g.cur]]

HEAD(g) == g.head[g.cur]

----------------------------------------------------------------------------
\* The machine outside the checkout: plugin repository, apache, /etc/hosts

\* The server name the template inasafe-test.conf.templ carries (the text
\* the sed of lines 82-84 looks for).
ConfTemplate == <<"ServerName", " ">> \o Linfiniti

\* The line append() is given at line 97.
HostsEntry(site_name) == <<"127.0.0.1", " ">> \o site_name

\* contains(hosts, 'inasafe-test'): some line matches.
HostsContains(hosts, text) == \E i \in DOMAIN hosts : Contains(hosts[i], text)

\* fabric's append(): the line is added unless the file already has it.
HostsAppend(hosts, line) ==
    IF \E i \in DOMAIN hosts : hosts[i] = line THEN hosts ELSE Append(hosts, line)

\* How many loopback entries for the site the hosts file holds.
LoopbackEntries(hosts, site_name) ==
    Cardinality({i \in DOMAIN hosts : hosts[i] = HostsEntry(site_name)})

\* exists('inasafe-test.conf') in sites-available: test -e follows a link.
SiteConfExists(f) ==
    \/ f.sites_available = "file"
    \/ f.sites_available = "link" /\ f.conf # <<>>

----------------------------------------------------------------------------
\* build_test_package: metadata, package name, manifest

Placeholders == {"[VERSION]", "[FILE_NAME]", "[URL]", "[DATE]"}

\* The loop keeping the first value of each key.
RECURSIVE ParseMetadataFirstWins(_, _)
ParseMetadataFirstWins(lines, l) ==
    IF lines = <<>> THEN l
    ELSE LET line == RStrip(Head(lines))
             l1 == IF Contains(line, <<"version=">>) /\ "plugin_version" \notin l.bound
                   THEN [l EXCEPT !.plugin_version = ReplaceAll(line, <<"version=">>, <<>>),
                                  !.bound = @ \cup {"plugin_version"}]
                   ELSE l
             l2 == IF Contains(line, <<"status=">>) /\ "status" \notin l1.bound
                   THEN [l1 EXCEPT !.status = ReplaceAll(line, <<"status=">>, <<>>),
                                   !.bound = @ \cup {"status"}]
                   ELSE l1
         IN ParseMetadataFirstWins(Tail(lines), l2)

\* The for loop of lines 178-183 over the lines still to read; l holds the
\* locals (bound: the names assigned so far).
RECURSIVE ParseMetadata(_, _)
ParseMetadata(lines, l) ==
    IF lines = <<>> THEN l
    ELSE LET line == RStrip(Head(lines))
             l1 == IF Contains(line, <<"version=">>)
                   THEN [l EXCEPT !.plugin_version = ReplaceAll(line, <<"version=">>, <<>>),
                                  !.bound = @ \cup {"plugin_version"}]
                   ELSE l
             l2 == IF Contains(line, <<"status=">>)
                   THEN [l1 EXCEPT !.status = ReplaceAll(line, <<"status=">>, <<>>),
                                   !.bound = @ \cup {"status"}]
                   ELSE l1
         IN ParseMetadata(Tail(lines), l2)

\* A package name that carries the status as well.
PackageNameWithStatus(plugin_version) ==
    <<"inasafe">> \o <<".">> \o plugin_version \o <<"-">> \o loc.status \o <<".zip">>

\* '%s.%s.zip' % ('inasafe', plugin_version)
PackageName(plugin_version) == <<"inasafe">> \o <<".">> \o plugin_version \o <<".zip">>

\* '/tmp/%s' % package_name
ArchiveSource(package_name) == <<"/tmp/">> \o package_name

\* 'http://%s/%s' % (env.site_name, package_name)
PackageUrl(site_name, package_name) == <<"http://">> \o site_name \o <<"/">> \o package_name

\* str(datetime.now()) in the n-th fab run: later runs read later times.
Now(n) == <<"date">> \o [i \in 1..n |-> "'"]

\* A sed without the g flag: only the first match is replaced.
RECURSIVE ReplaceFirst(_, _, _)
ReplaceFirst(s, before, after) ==
    IF Len(s) < Len(before) THEN s
    ELSE IF SubSeq(s, 1, Len(before)) = before
         THEN after \o SubSeq(s, Len(before) + 1, Len(s))
         ELSE <<Head(s)>> \o ReplaceFirst(Tail(s), before, after)

SedFirstOnly(text, before, after) == ReplaceFirst(text, before, after)

\* fabric's sed(filename, before, after): every match is replaced.
Sed(text, before, after) == ReplaceAll(text, before, after)

NoLocals ==
    [ metadata_text |-> <<>>, plugin_version |-> <<>>, status |-> <<>>,
      package_name |-> <<>>, bound |-> {} ]

----------------------------------------------------------------------------
\* Initial states: the machine before the first fab run

Hostnames == {"waterfall", "spur", "maps.linfiniti.com", "newhost"}

Machine(hostname) == [hostname |-> hostname, user |-> "timlinux"]

\* The lines a metadata.txt is made of.
MetadataLines ==
    { <<"version=", "1.2.0">>,
      <<"version=", "2.0.0", " ">>,
      <<"qgis_minimum_", "version=", "1.7">>,
      <<"status=", "beta">>,
      <<"name=", "InaSAFE">> }

StandardMetadata == << <<"version=", "1.2.0">>, <<"status=", "beta">> >>

\* scripts/test-build-repo/plugins.xml as the repository ships it.
ManifestTemplates ==
    { <<"<version>", "[VERSION]", "<file_name>", "[FILE_NAME]",
        "<download_url>", "[URL]", "<update_date>", "[DATE]">>,
      <<"<plugin version=", "[VERSION]", "<version>", "[VERSION]",
        "<download_url>", "[URL]", "[FILE_NAME]", "[DATE]">> }

StandardRepo ==
    [ plugins_xml |-> <<"<version>", "[VERSION]", "<file_name>", "[FILE_NAME]",
                        "<download_url>", "[URL]", "<update_date>", "[DATE]">>,
      metadata |-> StandardMetadata ]

RepoInits ==
    [plugins_xml : {StandardRepo.plugins_xml}, metadata : SeqsUpTo(MetadataLines, MaxLines)]
    \cup [plugins_xml : ManifestTemplates, metadata : {StandardMetadata}]

BaseHosts == << <<"127.0.0.1", " ", "localhost">> >>

HostsFiles ==
    { BaseHosts,
      Append(BaseHosts, HostsEntry(Localhost)),
      Append(Append(BaseHosts, HostsEntry(Localhost)), HostsEntry(Localhost)),
      Append(BaseHosts, <<"188.40.123.80", " ">> \o Linfiniti) }

FreshFs ==
    [ plugin_repo |-> FALSE, manifest |-> <<>>, published |-> {},
      conf |-> <<>>, sites_available |-> "none", enabled |-> FALSE,
      hosts |-> BaseHosts, revision |-> {} ]

FsInits ==
    { [FreshFs EXCEPT !.plugin_repo = p, !.sites_available = s[1],
                      !.enabled = s[2], !.hosts = h] :
        p \in BOOLEAN,
        s \in {<<"none", FALSE>>, <<"link", TRUE>>, <<"file", TRUE>>},
        h \in HostsFiles }

\* An existing checkout: on any local branch, master anywhere relative to
\* the remote (behind, level, ahead, diverged), edited or not.
GitInits ==
    UNION { {[ exists |-> TRUE, cur |-> c, branches |-> bs,
        head |-> [b \in RemoteBranches |->
                     IF b = "master" THEN m
                     ELSE IF b \in bs THEN RemoteTip[b] \cup {LocalCommit} ELSE {}],
        dirty |-> d, fetched |-> FALSE ] :
        c \in bs,
        m \in SUBSET (RemoteTip["master"] \cup {LocalCommit}),
        d \in BOOLEAN } :
      bs \in {{"master"}, {"master", "dev"}} }

CleanCheckout == GitClone(NoCheckout)

NoPrev ==
    [ task |-> "", branch |-> "", hosts0 |-> <<>>, hosts1 |-> <<>>, git |-> NoCheckout ]

InitCommon ==
    /\ env = FreshEnv
    /\ loc = NoLocals
    /\ task = ""
    /\ branch = ""
    /\ pc = "idle"
    /\ log = <<>>
    /\ runs = 0
    /\ start = [hosts |-> fs.hosts, git |-> git]
    /\ prev = NoPrev

\* Any checkout on a machine not yet provisioned.
InitGit ==
    /\ host = Machine("waterfall")
    /\ repo = StandardRepo
    /\ git \in GitInits \cup {NoCheckout}
    /\ fs = FreshFs

\* Any machine state outside the checkout, on every host.
InitSite ==
    /\ host \in {Machine(h) : h \in Hostnames \ {"spur"}}
    /\ repo = StandardRepo
    /\ git = CleanCheckout
    /\ fs \in FsInits

\* Any metadata.txt and manifest template in the repository.
InitMeta ==
    /\ host = Machine("spur")
    /\ repo \in RepoInits
    /\ git = NoCheckout
    /\ fs = FreshFs

Init == (InitGit \/ InitSite \/ InitMeta) /\ InitCommon

----------------------------------------------------------------------------
\* Running commands

Tasks == {"show_environment", "update_qgis_plugin_repo",
          "update_git_checkout", "build_test_package"}

\* What the command line can name: a task and, where it takes one, a branch.
TaskCalls ==
    { [task |-> t, branch |-> b] :
        t \in {"update_git_checkout", "build_test_package"}, b \in RemoteBranches }
    \cup { [task |-> t, branch |-> "master"] :
        t \in {"show_environment", "update_qgis_plugin_repo"} }

\* One issued command.  fault: the command failed for a reason outside it
\* (network, permissions, disk) although its own preconditions held.
Entry(cmd, args, pre, ok) ==
    [cmd |-> cmd, args |-> args, ok |-> ok, fault |-> pre /\ ~ok]

\* A command whose preconditions do not hold fails; any other may.
Outcomes(pre) == IF pre THEN BOOLEAN ELSE {FALSE}

\* Commands run with warn_only: a failure is reported and fab goes on.
RunWarnOnly(cmd, args, pre, ok, next) ==
    /\ log' = Append(log, Entry(cmd, args, pre, ok))
    /\ pc' = next

\* env.run / run / sudo / sed / append / get: a failure aborts fab.
Run(cmd, args, pre, ok, next) ==
    /\ log' = Append(log, Entry(cmd, args, pre, ok))
    /\ pc' = IF ok THEN next ELSE "aborted"

\* exists / contains: the result is the answer, never an abort.
Query(cmd, args, next) ==
    /\ log' = Append(log, Entry(cmd, args, TRUE, TRUE))
    /\ pc' = next

\* Where control goes when update_git_checkout or update_qgis_plugin_repo
\* returns: back into build_test_package, or out of the task.
ReturnFrom(fn) ==
    IF task = "build_test_package"
    THEN IF fn = "update_git_checkout" THEN "update_qgis_plugin_repo"
         ELSE "build_rev_parse"
    ELSE "done"

CodePath == PathJoin(env.repo_path, env.repo_alias)
LocalPath == CodePath \o <<"/scripts/test-build-repo">>

----------------------------------------------------------------------------
\* localhost(), remote() and _all()

\* _all as called with env e: whoami and hostname are asked of the machine
\* and the hostname is looked up in the site table.
_all(e) ==
    IF host.hostname \notin DOMAIN site_names
    THEN UnresolvedEnv(e, host.user, host.hostname)
    ELSE ResolvedEnv(e, host.user, host.hostname)

\* A fab process starts: the first task on the command line sets env.run and
\* calls _all; fab then goes on to the task named next.
Begin(e) ==
    /\ pc \in {"idle", "done"}
    /\ runs < MaxRuns
    /\ runs' = runs + 1
    /\ \E c \in TaskCalls : task' = c.task /\ branch' = c.branch
    /\ \E ok \in BOOLEAN :
        /\ env' = IF ok THEN _all(e) ELSE e
        /\ log' = IF ok
                  THEN <<Entry("whoami", <<>>, TRUE, TRUE), Entry("hostname", <<>>, TRUE, TRUE)>>
                  ELSE <<Entry("whoami", <<>>, TRUE, FALSE)>>
        /\ pc' = IF ok THEN "task" ELSE "aborted"
    /\ loc' = NoLocals
    /\ start' = [hosts |-> fs.hosts, git |-> git]
    /\ prev' = IF pc = "done"
               THEN [task |-> task, branch |-> branch, hosts0 |-> start.hosts,
                     hosts1 |-> fs.hosts, git |-> git]
               ELSE NoPrev
    /\ UNCHANGED <<host, repo, git, fs>>

localhost == Begin([FreshEnv EXCEPT !.run = "captured_local", !.hosts = <<"localhost">>])

remote == Begin([FreshEnv EXCEPT !.run = "run"])

\* fab calls the task.  The task's first read of an attribute _all did not
\* set raises AttributeError.
CallTask ==
    /\ pc = "task"
    /\ pc' = task
    /\ UNCHANGED <<host, repo, git, fs, env, loc, task, branch, log, runs, start, prev>>

show_environment ==
    /\ pc = "show_environment"
    /\ pc' = IF ResolvedAttrs \subseteq env.has THEN "done" ELSE "crashed"
    /\ UNCHANGED <<host, repo, git, fs, env, loc, task, branch, log, runs, start, prev>>

----------------------------------------------------------------------------
\* update_git_checkout(branch)

\* The test of line 116 with its `not` lost.
CheckoutPathInverted(g) == IF g.exists THEN "git_mkdir" ELSE "git_fetch"

\* Lines 116 and 121: the checkout's existence picks the path.
CheckoutPath(g) == IF g.exists THEN "git_fetch" ELSE "git_mkdir"

\* Line 116
update_git_checkout ==
    /\ pc = "update_git_checkout"
    /\ IF {"repo_path", "repo_alias"} \subseteq env.has
       THEN Query("exists", <<CodePath>>, CheckoutPath(git))
       ELSE pc' = "crashed" /\ log' = log
    /\ UNCHANGED <<host, repo, git, fs, env, loc, task, branch, runs, start, prev>>

\* Line 118
git_mkdir ==
    /\ pc = "git_mkdir"
    /\ \E ok \in BOOLEAN : Run("mkdir -p", <<env.repo_path>>, TRUE, ok, "git_clone")
    /\ UNCHANGED <<host, repo, git, fs, env, loc, task, branch, runs, start, prev>>

\* Line 120
git_clone ==
    /\ pc = "git_clone"
    /\ \E ok \in Outcomes(~git.exists) :
        /\ Run("git clone", <<env.git_url, env.repo_alias>>, ~git.exists, ok, "git_select")
        /\ git' = IF ok THEN GitClone(git) ELSE git
    /\ UNCHANGED <<host, repo, fs, env, loc, task, branch, runs, start, prev>>

\* Line 125
git_fetch ==
    /\ pc = "git_fetch"
    /\ \E ok \in BOOLEAN :
        /\ Run("git fetch", <<>>, TRUE, ok, "git_reset_hard")
        /\ git' = IF ok THEN GitFetch(git) ELSE git
    /\ UNCHANGED <<host, repo, fs, env, loc, task, branch, runs, start, prev>>

\* Line 127
git_reset_hard ==
    /\ pc = "git_reset_hard"
    /\ \E ok \in BOOLEAN :
        /\ Run("git reset --hard", <<>>, TRUE, ok, "git_checkout_master")
        /\ git' = IF ok THEN GitResetHard(git) ELSE git
    /\ UNCHANGED <<host, repo, fs, env, loc, task, branch, runs, start, prev>>

\* Line 129
git_checkout_master ==
    /\ pc = "git_checkout_master"
    /\ \E ok \in Outcomes("master" \in git.branches) :
        /\ Run("git checkout", <<<<"master">>>>, "master" \in git.branches, ok,
               "git_reset_hard_master")
        /\ git' = IF ok THEN GitCheckout(git, "master") ELSE git
    /\ UNCHANGED <<host, repo, fs, env, loc, task, branch, runs, start, prev>>

\* Line 131
git_reset_hard_master ==
    /\ pc = "git_reset_hard_master"
    /\ \E ok \in BOOLEAN :
        /\ Run("git reset --hard", <<>>, TRUE, ok, "git_branch_delete")
        /\ git' = IF ok THEN GitResetHard(git) ELSE git
    /\ UNCHANGED <<host, repo, fs, env, loc, task, branch, runs, start, prev>>

\* Line 133.  With no other branch the pipe hands xargs nothing: GNU xargs
\* still runs `git branch -D` once, which git 1.8.2 and later reject (exit
\* 123) and earlier gits accept; BSD xargs runs nothing.  Either may happen.
git_branch_delete ==
    /\ pc = "git_branch_delete"
    /\ \E ok \in BOOLEAN :
        /\ Run("git branch -D", <<>>, OtherBranches(git) # {}, ok, "git_select")
        /\ git' = IF ok THEN GitDeleteOthers(git) ELSE git
    /\ UNCHANGED <<host, repo, fs, env, loc, task, branch, runs, start, prev>>

\* Line 136
git_select ==
    /\ pc = "git_select"
    /\ pc' = IF branch # "master" THEN "git_branch_track" ELSE "git_checkout_default"
    /\ UNCHANGED <<host, repo, git, fs, env, loc, task, branch, log, runs, start, prev>>

\* Lines 137-138
git_branch_track ==
    /\ pc = "git_branch_track"
    /\ \E ok \in Outcomes(branch \notin git.branches) :
        /\ Run("git branch --track", <<<<branch>>, <<"origin/", branch>>>>,
               branch \notin git.branches, ok, "git_checkout_branch")
        /\ git' = IF ok THEN GitBranchTrack(git, branch) ELSE git
    /\ UNCHANGED <<host, repo, fs, env, loc, task, branch, runs, start, prev>>

\* Line 139
git_checkout_branch ==
    /\ pc = "git_checkout_branch"
    /\ \E ok \in Outcomes(branch \in git.branches) :
        /\ Run("git checkout", <<<<branch>>>>, branch \in git.branches, ok, "git_pull")
        /\ git' = IF ok THEN GitCheckout(git, branch) ELSE git
    /\ UNCHANGED <<host, repo, fs, env, loc, task, branch, runs, start, prev>>

\* Line 141
git_checkout_default ==
    /\ pc = "git_checkout_default"
    /\ \E ok \in Outcomes("master" \in git.branches) :
        /\ Run("git checkout", <<<<"master">>>>, "master" \in git.branches, ok, "git_pull")
        /\ git' = IF ok THEN GitCheckout(git, "master") ELSE git
    /\ UNCHANGED <<host, repo, fs, env, loc, task, branch, runs, start, prev>>

\* Line 142
git_pull ==
    /\ pc = "git_pull"
    /\ \E ok \in BOOLEAN :
        /\ Run("git pull", <<>>, TRUE, ok, ReturnFrom("update_git_checkout"))
        /\ git' = IF ok THEN GitPull(git) ELSE git
    /\ UNCHANGED <<host, repo, fs, env, loc, task, branch, runs, start, prev>>

----------------------------------------------------------------------------
\* update_qgis_plugin_repo()

\* Lines 70-73
update_qgis_plugin_repo ==
    /\ pc = "update_qgis_plugin_repo"
    /\ IF {"repo_path", "repo_alias", "plugin_repo_path"} \subseteq env.has
       THEN Query("exists", <<env.plugin_repo_path>>,
                  IF fs.plugin_repo THEN "prov_cp_plugin" ELSE "prov_mkdir")
       ELSE pc' = "crashed" /\ log' = log
    /\ UNCHANGED <<host, repo, git, fs, env, loc, task, branch, runs, start, prev>>

\* Line 74
prov_mkdir ==
    /\ pc = "prov_mkdir"
    /\ \E ok \in BOOLEAN :
        /\ Run("mkdir -p", <<env.plugin_repo_path>>, TRUE, ok, "prov_chown")
        /\ fs' = IF ok THEN [fs EXCEPT !.plugin_repo = TRUE] ELSE fs
    /\ UNCHANGED <<host, repo, git, env, loc, task, branch, runs, start, prev>>

\* Line 75
prov_chown ==
    /\ pc = "prov_chown"
    /\ \E ok \in BOOLEAN :
        Run("chown", <<env.user, env.plugin_repo_path>>, TRUE, ok, "prov_cp_plugin")
    /\ UNCHANGED <<host, repo, git, fs, env, loc, task, branch, runs, start, prev>>

\* Line 77: plugins.xml, as the checkout has it, lands in the plugin repo.
CopyPlugin(f) == [f EXCEPT !.manifest = repo.plugins_xml]

prov_cp_plugin ==
    /\ pc = "prov_cp_plugin"
    /\ \E ok \in Outcomes(git.exists) :
        /\ Run("cp plugin*", <<LocalPath, env.plugin_repo_path>>, git.exists, ok, "prov_cp_icon")
        /\ fs' = IF ok THEN CopyPlugin(fs) ELSE fs
    /\ UNCHANGED <<host, repo, git, env, loc, task, branch, runs, start, prev>>

\* Line 78
prov_cp_icon ==
    /\ pc = "prov_cp_icon"
    /\ \E ok \in Outcomes(git.exists) :
        Run("cp icon*", <<CodePath, env.plugin_repo_path>>, git.exists, ok, "prov_cp_conf")
    /\ UNCHANGED <<host, repo, git, fs, env, loc, task, branch, runs, start, prev>>

\* Lines 79-80
prov_cp_conf ==
    /\ pc = "prov_cp_conf"
    /\ \E ok \in Outcomes(git.exists) :
        /\ Run("cp inasafe-test.conf.templ", <<LocalPath>>, git.exists, ok, "prov_sed_conf")
        /\ fs' = IF ok THEN [fs EXCEPT !.conf = ConfTemplate] ELSE fs
    /\ UNCHANGED <<host, repo, git, env, loc, task, branch, runs, start, prev>>

\* Lines 82-84
prov_sed_conf ==
    /\ pc = "prov_sed_conf"
    /\ \E ok \in Outcomes(fs.conf # <<>>) :
        /\ Run("sed inasafe-test.conf", <<Linfiniti, env.site_name>>, fs.conf # <<>>, ok,
               "prov_exists_conf")
        /\ fs' = IF ok THEN [fs EXCEPT !.conf = Sed(fs.conf, Linfiniti, env.site_name)] ELSE fs
    /\ UNCHANGED <<host, repo, git, env, loc, task, branch, runs, start, prev>>

\* Line 87
prov_exists_conf ==
    /\ pc = "prov_exists_conf"
    /\ Query("exists", <<<<"inasafe-test.conf">>>>,
             IF SiteConfExists(fs) THEN "prov_a2dissite" ELSE "prov_ln")
    /\ UNCHANGED <<host, repo, git, fs, env, loc, task, branch, runs, start, prev>>

\* Line 88
prov_a2dissite ==
    /\ pc = "prov_a2dissite"
    /\ \E ok \in BOOLEAN :
        /\ Run("a2dissite", <<<<"inasafe-test.conf">>>>, TRUE, ok, "prov_rm")
        /\ fs' = IF ok THEN [fs EXCEPT !.enabled = FALSE] ELSE fs
    /\ UNCHANGED <<host, repo, git, env, loc, task, branch, runs, start, prev>>

\* Line 90
prov_rm ==
    /\ pc = "prov_rm"
    /\ \E ok \in BOOLEAN :
        /\ Run("rm", <<<<"inasafe-test.conf">>>>, TRUE, ok, "prov_ln")
        /\ fs' = IF ok THEN [fs EXCEPT !.sites_available = "none"] ELSE fs
    /\ UNCHANGED <<host, repo, git, env, loc, task, branch, runs, start, prev>>

\* Line 92: ln -s refuses a name that is taken.
prov_ln ==
    /\ pc = "prov_ln"
    /\ \E ok \in Outcomes(fs.sites_available = "none") :
        /\ Run("ln -s", <<LocalPath>>, fs.sites_available = "none", ok, "prov_contains")
        /\ fs' = IF ok THEN [fs EXCEPT !.sites_available = "link"] ELSE fs
    /\ UNCHANGED <<host, repo, git, env, loc, task, branch, runs, start, prev>>

\* The guard of line 96 with its `not` lost.
HostsGuardInverted(hosts) == HostsContains(hosts, <<"inasafe-test">>)

\* Line 96
HostsGuard(hosts) == ~HostsContains(hosts, <<"inasafe-test">>)

prov_contains ==
    /\ pc = "prov_contains"
    /\ Query("contains", <<<<"/etc/hosts">>, <<"inasafe-test">>>>,
             IF HostsGuard(fs.hosts) THEN "prov_append" ELSE "prov_a2ensite")
    /\ UNCHANGED <<host, repo, git, fs, env, loc, task, branch, runs, start, prev>>

\* Line 97
prov_append ==
    /\ pc = "prov_append"
    /\ \E ok \in BOOLEAN :
        /\ Run("append", <<<<"/etc/hosts">>, HostsEntry(env.site_name)>>, TRUE, ok,
               "prov_a2ensite")
        /\ fs' = IF ok THEN [fs EXCEPT !.hosts = HostsAppend(fs.hosts, HostsEntry(env.site_name))]
                 ELSE fs
    /\ UNCHANGED <<host, repo, git, env, loc, task, branch, runs, start, prev>>

\* Line 99
EnableSite(f) == [f EXCEPT !.enabled = TRUE]

prov_a2ensite ==
    /\ pc = "prov_a2ensite"
    /\ \E ok \in Outcomes(fs.sites_available # "none") :
        /\ Run("a2ensite", <<<<"inasafe-test.conf">>>>, fs.sites_available # "none", ok,
               "prov_reload")
        /\ fs' = IF ok THEN EnableSite(fs) ELSE fs
    /\ UNCHANGED <<host, repo, git, env, loc, task, branch, runs, start, prev>>

\* Line 100
prov_reload ==
    /\ pc = "prov_reload"
    /\ \E ok \in BOOLEAN :
        Run("service apache2 reload", <<>>, TRUE, ok, ReturnFrom("update_qgis_plugin_repo"))
    /\ UNCHANGED <<host, repo, git, fs, env, loc, task, branch, runs, start, prev>>

----------------------------------------------------------------------------
\* build_test_package(branch)

\* Line 164: the build starts by calling update_git_checkout(branch); it
\* comes back through update_qgis_plugin_repo (line 165) to line 171.
build_test_package ==
    /\ pc = "build_test_package"
    /\ pc' = "update_git_checkout"
    /\ UNCHANGED <<host, repo, git, fs, env, loc, task, branch, log, runs, start, prev>>

\* Line 171
build_rev_parse ==
    /\ pc = "build_rev_parse"
    /\ \E ok \in Outcomes(git.exists) :
        /\ Run("git rev-parse HEAD", <<>>, git.exists, ok, "build_get")
        /\ fs' = IF ok THEN [fs EXCEPT !.revision = HEAD(git)] ELSE fs
    /\ UNCHANGED <<host, repo, git, env, loc, task, branch, runs, start, prev>>

\* Lines 174-177
build_get ==
    /\ pc = "build_get"
    /\ \E ok \in Outcomes(git.exists) :
        /\ Run("get", <<<<"metadata.txt">>, <<"/tmp/metadata.txt">>>>, git.exists, ok,
               "build_parse")
        /\ loc' = IF ok THEN [loc EXCEPT !.metadata_text = Readlines(repo.metadata)] ELSE loc
    /\ UNCHANGED <<host, repo, git, fs, env, task, branch, runs, start, prev>>

\* Lines 178-183
build_parse ==
    /\ pc = "build_parse"
    /\ loc' = ParseMetadata(loc.metadata_text, loc)
    /\ pc' = "build_release"
    /\ UNCHANGED <<host, repo, git, fs, env, task, branch, log, runs, start, prev>>

\* Locals that were given a value before the loop are always bound.
IsBoundAlways(l, name) == TRUE

\* Reading a local: a name never assigned raises NameError.
IsBound(l, name) == name \in l.bound

\* Line 185: formatting the command reads plugin_version, before anything is
\* run.
build_release ==
    /\ pc = "build_release"
    /\ IF IsBound(loc, "plugin_version")
       THEN \E ok \in BOOLEAN :
                Run("scripts/release.sh", <<loc.plugin_version>>, TRUE, ok, "build_cp")
       ELSE pc' = "crashed" /\ log' = log
    /\ UNCHANGED <<host, repo, git, fs, env, loc, task, branch, runs, start, prev>>

\* Lines 186-189
build_cp ==
    /\ pc = "build_cp"
    /\ LET package_name == PackageName(loc.plugin_version) IN
       \E ok \in BOOLEAN :
        /\ Run("cp", <<ArchiveSource(package_name), env.plugin_repo_path>>, TRUE, ok,
               "build_sed_version")
        /\ loc' = [loc EXCEPT !.package_name = package_name]
        /\ fs' = IF ok THEN [fs EXCEPT !.published = @ \cup {package_name}] ELSE fs
    /\ UNCHANGED <<host, repo, git, env, task, branch, runs, start, prev>>

\* sed(plugins_xml, before, after) of lines 192-196
SedManifest(before, after, ok, next) ==
    /\ Run("sed plugins.xml", <<<<before>>, after>>, fs.manifest # <<>>, ok, next)
    /\ fs' = IF ok THEN [fs EXCEPT !.manifest = Sed(fs.manifest, <<before>>, after)] ELSE fs

\* Line 192
build_sed_version ==
    /\ pc = "build_sed_version"
    /\ \E ok \in Outcomes(fs.manifest # <<>>) :
        SedManifest("[VERSION]", loc.plugin_version, ok, "build_sed_file_name")
    /\ UNCHANGED <<host, repo, git, env, loc, task, branch, runs, start, prev>>

\* Line 193
build_sed_file_name ==
    /\ pc = "build_sed_file_name"
    /\ \E ok \in Outcomes(fs.manifest # <<>>) :
        SedManifest("[FILE_NAME]", loc.package_name, ok, "build_sed_url")
    /\ UNCHANGED <<host, repo, git, env, loc, task, branch, runs, start, prev>>

\* Lines 194-195
build_sed_url ==
    /\ pc = "build_sed_url"
    /\ \E ok \in Outcomes(fs.manifest # <<>>) :
        SedManifest("[URL]", PackageUrl(env.site_name, loc.package_name), ok, "build_sed_date")
    /\ UNCHANGED <<host, repo, git, env, loc, task, branch, runs, start, prev>>

\* Line 196
build_sed_date ==
    /\ pc = "build_sed_date"
    /\ \E ok \in Outcomes(fs.manifest # <<>>) :
        SedManifest("[DATE]", Now(runs), ok, "done")
    /\ UNCHANGED <<host, repo, git, env, loc, task, branch, runs, start, prev>>

----------------------------------------------------------------------------

Next ==
    \/ localhost
    \/ remote
    \/ CallTask
    \/ show_environment
    \/ update_git_checkout
    \/ git_mkdir
    \/ git_clone
    \/ git_fetch
    \/ git_reset_hard
    \/ git_checkout_master
    \/ git_reset_hard_master
    \/ git_branch_delete
    \/ git_select
    \/ git_branch_track
    \/ git_checkout_branch
    \/ git_checkout_default
    \/ git_pull
    \/ update_qgis_plugin_repo
    \/ prov_mkdir
    \/ prov_chown
    \/ prov_cp_plugin
    \/ prov_cp_icon
    \/ prov_cp_conf
    \/ prov_sed_conf
    \/ prov_exists_conf
    \/ prov_a2dissite
    \/ prov_rm
    \/ prov_ln
    \/ prov_contains
    \/ prov_append
    \/ prov_a2ensite
    \/ prov_reload
    \/ build_test_package
    \/ build_rev_parse
    \/ build_get
    \/ build_parse
    \/ build_release
    \/ build_cp
    \/ build_sed_version
    \/ build_sed_file_name
    \/ build_sed_url
    \/ build_sed_date

Spec == Init /\ [][Next]_vars

----------------------------------------------------------------------------
\* Properties

Cmds == [i \in DOMAIN log |-> log[i].cmd]

Issued(cmd) == \E i \in DOMAIN log : log[i].cmd = cmd

\* The commands that provision, synchronise or publish: all but the two
\* identity queries of _all.
TaskCommands == {i \in DOMAIN log : log[i].cmd \notin {"whoami", "hostname"}}

NoFault == \A i \in DOMAIN log : ~log[i].fault

BuildTail ==
    {"build_release", "build_cp", "build_sed_version", "build_sed_file_name",
     "build_sed_url", "build_sed_date"}

\* C1: once _all has read a hostname that is not a key of the site table,
\* the fab process stands aborted and has run no command of a task.
C1_UnknownHostAborts ==
    (env.hostname # "" /\ env.hostname \notin DOMAIN site_names)
        => (pc = "aborted" /\ TaskCommands = {})

SecondProvision ==
    /\ pc = "done"
    /\ task = "update_qgis_plugin_repo"
    /\ prev.task = "update_qgis_plugin_repo"

SiteInstalled ==
    /\ fs.sites_available = "link"
    /\ fs.enabled
    /\ fs.conf = <<"ServerName", " ">> \o env.site_name

\* C2 as claimed: after update_qgis_plugin_repo has completed twice in
\* succession, whatever the machine held before, the site configuration is
\* installed and enabled, the hosts file holds exactly one loopback entry
\* for the site, and the second run added none.
C2_ProvisionTwiceExactlyOne ==
    SecondProvision =>
        /\ SiteInstalled
        /\ LoopbackEntries(fs.hosts, env.site_name) = 1
        /\ fs.hosts = prev.hosts1

\* C2 as amended: after update_qgis_plugin_repo has completed twice in
\* succession the site configuration is installed and enabled and the second
\* run has left the hosts file as the first left it; the file holds exactly
\* one loopback entry for the site if no line of it contained
\* `inasafe-test` before the first run, and is otherwise as it was then.
C2_ProvisionTwice ==
    SecondProvision =>
        /\ SiteInstalled
        /\ fs.hosts = prev.hosts1
        /\ IF HostsContains(prev.hosts0, <<"inasafe-test">>)
           THEN fs.hosts = prev.hosts0
           ELSE LoopbackEntries(fs.hosts, env.site_name) = 1

C2_Witness ==
    /\ SecondProvision
    /\ ~HostsContains(prev.hosts0, <<"inasafe-test">>)
    /\ LoopbackEntries(fs.hosts, env.site_name) = 1
    /\ Issued("a2dissite")

SecondSync ==
    /\ task = "update_git_checkout"
    /\ prev.task = "update_git_checkout"
    /\ prev.branch = branch

\* C3: update_git_checkout(branch) called again with the same branch, no
\* command failing for an outside reason, completes and leaves the checkout
\* as the first call left it: same branch, same local branches, same HEAD.
C3_SyncTwiceSameState ==
    (SecondSync /\ pc \in {"done", "aborted"} /\ NoFault) =>
        /\ pc = "done"
        /\ git.cur = prev.git.cur
        /\ git.branches = prev.git.branches
        /\ HEAD(git) = HEAD(prev.git)

\* C4: when update_git_checkout(branch) has completed, the checkout is on
\* the requested branch, has no uncommitted edit, and its HEAD is the remote
\* tip of that branch.
C4_SyncEndsAtRemoteTip ==
    (pc = "done" /\ task = "update_git_checkout") =>
        /\ git.cur = branch
        /\ ~git.dirty
        /\ HEAD(git) = RemoteTip[branch]

FinalCommands(b) ==
    IF b = "master" THEN <<"git checkout", "git pull">>
    ELSE <<"git branch --track", "git checkout", "git pull">>

\* C5: update_git_checkout takes one of two paths by the existence of the
\* checkout: without one it runs mkdir and git clone and no fetch, reset or
\* branch delete; with one it runs fetch, reset --hard, checkout master,
\* reset --hard, branch delete and no clone; either way it ends with the
\* checkout of the requested branch and git pull.
C5_OnePathByExistence ==
    /\ Issued("git clone") =>
        /\ ~start.git.exists
        /\ ~Issued("git fetch") /\ ~Issued("git reset --hard") /\ ~Issued("git branch -D")
    /\ Issued("git fetch") => (start.git.exists /\ ~Issued("git clone"))
    /\ (pc = "done" /\ task = "update_git_checkout") =>
        /\ SubSeq(Cmds, 4, Len(log)) =
             (IF start.git.exists
              THEN <<"git fetch", "git reset --hard", "git checkout",
                     "git reset --hard", "git branch -D">>
              ELSE <<"mkdir -p", "git clone">>) \o FinalCommands(branch)
        /\ log[Len(log) - 1].args = <<<<branch>>>>
        /\ start.git.exists => log[6].args = <<<<"master">>>>

C5_Witness ==
    /\ pc = "done"
    /\ task = "update_git_checkout"
    /\ start.git.exists
    /\ branch = "dev"
    /\ Issued("git branch -D")

\* The text a manifest template becomes when every placeholder token is
\* replaced by its value.
RECURSIVE Substituted(_, _)
Substituted(text, value) ==
    IF text = <<>> THEN <<>>
    ELSE (IF Head(text) \in DOMAIN value THEN value[Head(text)] ELSE <<Head(text)>>)
         \o Substituted(Tail(text), value)

SedsOf(token) ==
    {i \in DOMAIN log : log[i].cmd = "sed plugins.xml" /\ log[i].args[1] = <<token>>}

BuildDone == pc = "done" /\ task = "build_test_package"

\* C6: when build_test_package has completed, in a first build or a later
\* one, plugins.xml holds no placeholder token, each placeholder was the
\* subject of exactly one sed of this build, and the file is the template
\* with this build's version, file name, URL and time in their places.
C6_NoPlaceholderLeft ==
    BuildDone =>
        LET v == loc.plugin_version
            name == <<"inasafe", ".">> \o v \o <<".zip">>
            value == ("[VERSION]" :> v) @@ ("[FILE_NAME]" :> name) @@
                     ("[URL]" :> (<<"http://">> \o env.site_name \o <<"/">> \o name)) @@
                     ("[DATE]" :> Now(runs))
        IN /\ \A i \in DOMAIN fs.manifest : fs.manifest[i] \notin Placeholders
           /\ \A p \in Placeholders :
                /\ Cardinality(SedsOf(p)) = 1
                /\ \A i \in SedsOf(p) : log[i].args[2] = value[p]
           /\ fs.manifest = Substituted(repo.plugins_xml, value)

C6_Witness ==
    /\ BuildDone
    /\ prev.task = "build_test_package"
    /\ Cardinality({i \in DOMAIN repo.plugins_xml : repo.plugins_xml[i] = "[VERSION]"}) = 2
    /\ fs.manifest # repo.plugins_xml


\* C7: for the parsed version v and the site name s of the host, the
\* package is named inasafe.<v>.zip, the copy takes /tmp/inasafe.<v>.zip
\* into the plugin repository path, and the URL written to the manifest is
\* http://<s>/inasafe.<v>.zip, whatever the status; version=1.2.0 gives
\* inasafe.1.2.0.zip.
C7_PackageNameAndUrl ==
    LET v == loc.plugin_version
        s == site_names[host.hostname]
    IN /\ \A i \in DOMAIN log :
            /\ log[i].cmd = "cp" =>
                 /\ log[i].args = << <<"/tmp/", "inasafe", ".">> \o v \o <<".zip">>,
                                     <<"/home/web/inasafe-test">> >>
                 /\ loc.package_name = <<"inasafe", ".">> \o v \o <<".zip">>
                 /\ v = <<"1.2.0">> => loc.package_name = <<"inasafe", ".", "1.2.0", ".zip">>
                 /\ log[i].ok => loc.package_name \in fs.published
            /\ (log[i].cmd = "sed plugins.xml" /\ log[i].args[1] = <<"[URL]">>) =>
                 log[i].args[2] = <<"http://">> \o s \o <<"/", "inasafe", ".">> \o v \o <<".zip">>

C7_Witness ==
    /\ BuildDone
    /\ loc.plugin_version = <<"1.2.0">>
    /\ loc.status = <<"beta">>
    /\ <<"inasafe", ".", "1.2.0", ".zip">> \in fs.published
    /\ \E i \in SedsOf("[URL]") :
         log[i].args[2] = <<"http://", "inasafe-test", ".localhost", "/",
                            "inasafe", ".", "1.2.0", ".zip">>

\* Whether no line of the repository's metadata.txt contains the key.
Lacks(key) == \A i \in DOMAIN repo.metadata : ~Contains(repo.metadata[i], <<key>>)

Published ==
    Issued("scripts/release.sh") \/ Issued("cp") \/ Issued("sed plugins.xml")

\* C8 as claimed: a build whose metadata lacks a version= line or lacks a
\* status= line never completes and runs neither the release step, nor the
\* archive copy, nor a manifest substitution.
C8_MissingKeyIsFatal ==
    (task = "build_test_package" /\ (Lacks("version=") \/ Lacks("status=")))
        => (pc # "done" /\ ~Published)

\* C8 as amended: a build whose metadata lacks a version= line never
\* completes and runs neither the release step, nor the archive copy, nor a
\* manifest substitution: it dies on the unassigned name where the release
\* command is formatted.  A missing status= line stops nothing: status is
\* never read, and with a version the release step goes ahead.
C8_MissingVersionIsFatal ==
    /\ (task = "build_test_package" /\ Lacks("version="))
          => (pc # "done" /\ ~Published)
    /\ (pc = "crashed" /\ task = "build_test_package" /\ ResolvedAttrs \subseteq env.has)
          => (Lacks("version=") /\ Cmds[Len(log)] = "get")
    /\ (pc = "build_release" /\ ~Lacks("version="))
          => IsBound(loc, "plugin_version")

C8_Witness ==
    /\ pc = "crashed"
    /\ task = "build_test_package"
    /\ Lacks("version=")
    /\ ~Lacks("status=")
    /\ Cmds[Len(log)] = "get"

\* C9: a command that has failed is the last command of its fab process:
\* it is not run again and nothing is run after it; the process stands
\* aborted.
C9_FailureEndsTheRun ==
    \A i \in DOMAIN log :
        ~log[i].ok => (i = Len(log) /\ pc = "aborted")

C9_Witness ==
    /\ pc = "aborted"
    /\ task = "build_test_package"
    /\ Cmds[Len(log)] = "git pull"
    /\ ~log[Len(log)].ok
    /\ ~Published

\* The lines of the repository's metadata.txt that contain `version=`.
VersionLines == {i \in DOMAIN repo.metadata : Contains(repo.metadata[i], <<"version=">>)}

LastVersionLine == CHOOSE i \in VersionLines : \A j \in VersionLines : j <= i

NotVersionKey(token) == token \notin {"version="} \cup Whitespace

\* C10: of several metadata lines containing `version=` the last one wins:
\* its value is the version the release step is given and the package name
\* is built from.
C10_LastVersionLineWins ==
    (pc \in BuildTail /\ VersionLines # {}) =>
        LET v == SelectSeq(repo.metadata[LastVersionLine], NotVersionKey)
        IN /\ loc.plugin_version = v
           /\ \A i \in DOMAIN log :
                /\ log[i].cmd = "scripts/release.sh" => log[i].args = <<v>>
                /\ log[i].cmd = "cp" => log[i].args[1] = <<"/tmp/", "inasafe", ".">> \o v \o <<".zip">>
                /\ (log[i].cmd = "sed plugins.xml" /\ log[i].args[1] = <<"[VERSION]">>)
                      => log[i].args[2] = v

C10_Witness ==
    /\ pc = "build_sed_file_name"
    /\ repo.metadata = << <<"version=", "1.2.0">>, <<"version=", "2.0.0", " ">> >>
    /\ loc.plugin_version = <<"2.0.0">>
    /\ \E i \in SedsOf("[VERSION]") : log[i].args[2] = <<"2.0.0">>

====
